---- MODULE Spec2Model ----
(***************************************************************************)
(* The Pelican settings module site/pelicanconf.py of gregnicol.xyz.       *)
(*                                                                         *)
(* The file is a straight-line Python module: one future import and        *)
(* fifteen assignments of literals to module-level names.  Loading it      *)
(* executes the statements top to bottom, each binding one name in the     *)
(* module namespace.  The site generator then reads the named constants    *)
(* (the upper-case names) into its own settings.                           *)
(*                                                                         *)
(* Python values are tagged records, so that "is a string", "is None" and  *)
(* "is a boolean" are properties of the value and not of the notation:     *)
(*   str      [type |-> "str",   chars |-> sequence of characters]         *)
(*   None     [type |-> "NoneType"]                                        *)
(*   bool     [type |-> "bool",  b |-> BOOLEAN]                            *)
(*   int      [type |-> "int",   n |-> Int]                                *)
(*   tuple    [type |-> "tuple", items |-> sequence of values]             *)
(* A character is a one-character string; a character outside ASCII is     *)
(* written by its code point, "U+0E22".                                    *)
(***************************************************************************)
EXTENDS Integers, Sequences, FiniteSets, TLC

VARIABLES pc, ns, settings

vars == <<pc, ns, settings>>

----------------------------------------------------------------------------
(* Python values *)

\* The characters of an ASCII literal, one one-character string each.
Chars(s) == [i \in 1..Len(s) |-> SubSeq(s, i, i)]

\* A text string.  Line 3 (unicode_literals) makes every literal of the file
\* a text string, with or without the u prefix.
Str(chars) == [type |-> "str", chars |-> chars]

None == [type |-> "NoneType"]

PyFalse == [type |-> "bool", b |-> FALSE]

\* True and the integers: values no statement of the file produces; the
\* variants below use them.
PyTrue == [type |-> "bool", b |-> TRUE]

PyInt(n) == [type |-> "int", n |-> n]

Tuple(items) == [type |-> "tuple", items |-> items]

\* What "from __future__ import unicode_literals" binds its name to.
Feature == [type |-> "_Feature"]

----------------------------------------------------------------------------
(* The literals of the file, under the names they are assigned to.  A name *)
(* with a suffix, AUTHOR_Blank, is a variant of the definition that follows *)
(* it: the file with one plausible slip, against which a property is tried. *)

\* Variant: AUTHOR = u''

AUTHOR_Blank == Str(<<>>)

\* AUTHOR = u'greg nicol'
AUTHOR == Str(Chars("greg nicol"))

\* SITENAME = u'INSERT INTO /dev/null ...'
SITENAME == Str(Chars("INSERT INTO /dev/null ..."))

\* Variant: SITEURL set to the published address, as a publish
\* configuration would.
SITEURL_Published == Str(Chars("https://gregnicol.xyz"))

\* SITEURL = ''
SITEURL == Str(<<>>)

\* PATH = 'content'
PATH == Str(Chars("content"))

\* TIMEZONE = 'Europe/Paris'
TIMEZONE == Str(Chars("Europe/Paris"))

\* DEFAULT_LANG = u'en'
DEFAULT_LANG == Str(Chars("en"))

\* Variant: FEED_ALL_ATOM = 'feeds/all.atom.xml'
FEED_ALL_ATOM_Enabled == Str(Chars("feeds/all.atom.xml"))

\* FEED_ALL_ATOM = None
FEED_ALL_ATOM == None

\* CATEGORY_FEED_ATOM = None
CATEGORY_FEED_ATOM == None

\* TRANSLATION_FEED_ATOM = None
TRANSLATION_FEED_ATOM == None

\* AUTHOR_FEED_ATOM = None
AUTHOR_FEED_ATOM == None

\* AUTHOR_FEED_RSS = None
AUTHOR_FEED_RSS == None

\* A pair ('label', 'url') of two ASCII literals.
Pair(label, url) == Tuple(<<Str(Chars(label)), Str(Chars(url))>>)

\* ('CloudFlare', 'https://www.cloudflare.com/<U+0E22><U+0E07>'): the URL
\* literal ends in two Thai characters.
CloudFlare ==
    Tuple(<<Str(Chars("CloudFlare")),
            Str(Chars("https://www.cloudflare.com/") \o <<"U+0E22", "U+0E07">>)>>)

\* LINKS = ((..., ...), (..., ...), (..., ...), (..., ...))
LINKS ==
    Tuple(<<Pair("Pelican", "http://getpelican.com/"),
            Pair("Python.org", "http://python.org/"),
            Pair("Jinja2", "http://jinja.pocoo.org/"),
            CloudFlare>>)

\* Variant: SOCIAL = (('github', '...')), one entry and no trailing comma,
\* which is the inner pair itself.
SOCIAL_NoTrailingComma == Pair("github", "https://github.com/gregn610")

\* SOCIAL = ((..., ...), (..., ...), )
SOCIAL ==
    Tuple(<<Pair("github", "https://github.com/gregn610"),
            Pair("linkedin", "https://www.linkedin.com/in/greg-nicol-087a438/")>>)

\* Variant: DEFAULT_PAGINATION = 10
DEFAULT_PAGINATION_Ten == PyInt(10)

\* DEFAULT_PAGINATION = False
DEFAULT_PAGINATION == PyFalse

\* THEME = 'themes/pelican-sober'
THEME == Str(Chars("themes/pelican-sober"))

----------------------------------------------------------------------------
(* The statements of the file *)

ImportFrom(line, module, name) ==
    [kind |-> "import_from", line |-> line, module |-> module, name |-> name]

Assign(line, target, value) ==
    [kind |-> "assign", line |-> line, target |-> target, value |-> value]

FutureImport == ImportFrom(3, "__future__", "unicode_literals")

\* Lines 5-13: the site's metadata.
Metadata ==
    << Assign(5, "AUTHOR", AUTHOR),
       Assign(6, "SITENAME", SITENAME),
       Assign(7, "SITEURL", SITEURL),
       Assign(9, "PATH", PATH),
       Assign(11, "TIMEZONE", TIMEZONE),
       Assign(13, "DEFAULT_LANG", DEFAULT_LANG) >>

\* Variant: line 20 missing, four feed toggles.
Feeds_WithoutAuthorRss ==
    << Assign(16, "FEED_ALL_ATOM", FEED_ALL_ATOM),
       Assign(17, "CATEGORY_FEED_ATOM", CATEGORY_FEED_ATOM),
       Assign(18, "TRANSLATION_FEED_ATOM", TRANSLATION_FEED_ATOM),
       Assign(19, "AUTHOR_FEED_ATOM", AUTHOR_FEED_ATOM) >>

\* Lines 16-20: the feed toggles.
Feeds ==
    << Assign(16, "FEED_ALL_ATOM", FEED_ALL_ATOM),
       Assign(17, "CATEGORY_FEED_ATOM", CATEGORY_FEED_ATOM),
       Assign(18, "TRANSLATION_FEED_ATOM", TRANSLATION_FEED_ATOM),
       Assign(19, "AUTHOR_FEED_ATOM", AUTHOR_FEED_ATOM),
       Assign(20, "AUTHOR_FEED_RSS", AUTHOR_FEED_RSS) >>

\* Lines 23-34: the blogroll, the social widget and the pagination default.
Widgets ==
    << Assign(23, "LINKS", LINKS),
       Assign(30, "SOCIAL", SOCIAL),
       Assign(34, "DEFAULT_PAGINATION", DEFAULT_PAGINATION) >>

\* Variant: line 37 uncommented.
Ending_RelativeUrlsUncommented ==
    << Assign(37, "RELATIVE_URLS", PyTrue),
       Assign(39, "THEME", THEME) >>

\* Variant: a further line that assigns SITEURL a second time.
Ending_SiteUrlReassigned ==
    << Assign(39, "THEME", THEME),
       Assign(40, "SITEURL", SITEURL_Published) >>

\* Lines 36-39: line 37 is a comment and executes nothing; line 39 sets the
\* theme.
Ending ==
    << Assign(39, "THEME", THEME) >>

Program == <<FutureImport>> \o Metadata \o Feeds \o Widgets \o Ending

NStmts == Len(Program)

\* The position after the last statement: the module is loaded.
Loaded == NStmts + 1

----------------------------------------------------------------------------
(* The module namespace *)

\* The namespace with name bound to value; an earlier binding is replaced.
Bind(env, name, value) ==
    [k \in DOMAIN env \cup {name} |-> IF k = name THEN value ELSE env[k]]

LowerCase == {SubSeq("abcdefghijklmnopqrstuvwxyz", i, i) : i \in 1..26}

UpperCase == {SubSeq("ABCDEFGHIJKLMNOPQRSTUVWXYZ", i, i) : i \in 1..26}

\* Python's str.isupper: some cased character, and no lower-case one.
IsUpper(name) ==
    /\ \E i \in 1..Len(name) : SubSeq(name, i, i) \in UpperCase
    /\ \A i \in 1..Len(name) : SubSeq(name, i, i) \notin LowerCase

\* The named constants of the module: what the generator takes as settings.
SettingNames(env) == {k \in DOMAIN env : IsUpper(k)}

----------------------------------------------------------------------------
(* Loading the file, and the generator reading it *)

Init ==
    /\ pc = 1
    /\ ns = << >>
    /\ settings = << >>

\* from __future__ import unicode_literals
ExecImportFrom ==
    /\ pc <= NStmts
    /\ Program[pc].kind = "import_from"
    /\ ns' = Bind(ns, Program[pc].name, Feature)
    /\ pc' = pc + 1
    /\ UNCHANGED settings

\* NAME = <literal>
ExecAssign ==
    /\ pc <= NStmts
    /\ Program[pc].kind = "assign"
    /\ ns' = Bind(ns, Program[pc].target, Program[pc].value)
    /\ pc' = pc + 1
    /\ UNCHANGED settings

\* The generator copies one named constant of the loaded module into its
\* settings.  It reads; the module namespace is left as it is.
ReadSetting(k) ==
    /\ pc = Loaded
    /\ k \in SettingNames(ns)
    /\ k \notin DOMAIN settings
    /\ settings' = Bind(settings, k, ns[k])
    /\ UNCHANGED <<pc, ns>>

Next ==
    \/ ExecImportFrom
    \/ ExecAssign
    \/ \E k \in DOMAIN ns : ReadSetting(k)

Spec == Init /\ [][Next]_vars

----------------------------------------------------------------------------
(* Predicates on values and names *)

IsStr(v) == v.type = "str"

IsNonEmptyStr(v) == IsStr(v) /\ Len(v.chars) > 0

IsNone(v) == v.type = "NoneType"

IsBool(v) == v.type = "bool"

IsTuple(v) == v.type = "tuple"

\* A tuple of exactly two non-empty strings.
IsStrPair(v) ==
    /\ IsTuple(v)
    /\ Len(v.items) = 2
    /\ \A i \in 1..2 : IsNonEmptyStr(v.items[i])

\* A tuple whose every element is such a pair.
IsStrPairSeq(v) ==
    /\ IsTuple(v)
    /\ \A i \in 1..Len(v.items) : IsStrPair(v.items[i])

CharSet(s) == {SubSeq(s, i, i) : i \in 1..Len(s)}

Alpha == LowerCase \cup UpperCase

Digit == CharSet("0123456789")

\* RFC 3986: unreserved, gen-delims, sub-delims and the percent sign.
UrlChars == Alpha \cup Digit \cup CharSet("-._~:/?#[]@!$&'()*+,;=%")

\* The position of the first colon of cs, 0 when it has none.
FirstColon(cs) ==
    IF \E i \in 1..Len(cs) : cs[i] = ":"
    THEN CHOOSE i \in 1..Len(cs) :
             cs[i] = ":" /\ \A j \in 1..(i - 1) : cs[j] # ":"
    ELSE 0

\* scheme "://" host ..., the host non-empty, every character a URL character.
ParsesAsUrl(cs) ==
    LET c == FirstColon(cs) IN
    /\ c > 1
    /\ cs[1] \in Alpha
    /\ \A j \in 2..(c - 1) : cs[j] \in Alpha \cup Digit \cup CharSet("+-.")
    /\ Len(cs) >= c + 3
    /\ cs[c + 1] = "/"
    /\ cs[c + 2] = "/"
    /\ cs[c + 3] \notin CharSet("/?#")
    /\ \A j \in 1..Len(cs) : cs[j] \in UrlChars

EndsWith(s, suffix) ==
    /\ Len(s) >= Len(suffix)
    /\ SubSeq(s, Len(s) - Len(suffix) + 1, Len(s)) = suffix

\* A feed toggle: a *_FEED_ATOM or *_FEED_RSS name, or FEED_ALL_ATOM.
IsFeedToggle(name) ==
    \/ EndsWith(name, "_FEED_ATOM")
    \/ EndsWith(name, "_FEED_RSS")
    \/ name = "FEED_ALL_ATOM"

FeedToggles(env) == {k \in DOMAIN env : IsFeedToggle(k)}

RequiredKeys ==
    {"AUTHOR", "SITENAME", "PATH", "TIMEZONE", "DEFAULT_LANG", "THEME"}

\* The URL components of the pairs of a link list.
Urls(v) == {v.items[i].items[2] : i \in 1..Len(v.items)}

----------------------------------------------------------------------------
(* Properties *)

\* C1: once the file is loaded, each of AUTHOR, SITENAME, PATH, TIMEZONE,
\* DEFAULT_LANG and THEME is bound, and bound to a non-empty string.
C1_RequiredKeysNonEmpty ==
    pc = Loaded =>
        \A k \in RequiredKeys : k \in DOMAIN ns /\ IsNonEmptyStr(ns[k])

\* The generator has read every required key of the loaded module.
C1_Witness ==
    /\ pc = Loaded
    /\ RequiredKeys \subseteq DOMAIN settings
    /\ \A k \in RequiredKeys : IsNonEmptyStr(settings[k])

\* C2: once the file is loaded, the second component of every element of
\* LINKS and of SOCIAL parses as a URL.
C2_AllUrlsParse ==
    pc = Loaded =>
        \A u \in Urls(ns["LINKS"]) \cup Urls(ns["SOCIAL"]) : ParsesAsUrl(u.chars)

\* The CloudFlare entry is the only one whose URL does not parse.
C2_AllButCloudFlareParse ==
    pc = Loaded =>
        /\ \A u \in (Urls(ns["LINKS"]) \cup Urls(ns["SOCIAL"]))
                        \ {ns["LINKS"].items[4].items[2]} : ParsesAsUrl(u.chars)
        /\ ns["LINKS"].items[4].items[1] = Str(Chars("CloudFlare"))
        /\ ~ParsesAsUrl(ns["LINKS"].items[4].items[2].chars)

\* C3: once the file is loaded, LINKS and SOCIAL are each a tuple whose every
\* element is a tuple of exactly two non-empty strings.
C3_PairSequences ==
    pc = Loaded =>
        \A k \in {"LINKS", "SOCIAL"} : k \in DOMAIN ns /\ IsStrPairSeq(ns[k])

\* The generator has read both link lists, of four and of two entries.
C3_Witness ==
    /\ pc = Loaded
    /\ {"LINKS", "SOCIAL"} \subseteq DOMAIN settings
    /\ Len(settings["LINKS"].items) = 4
    /\ Len(settings["SOCIAL"].items) = 2

\* C4, as stated: the loaded file declares exactly four feed toggles.
C4_FourFeedToggles ==
    pc = Loaded => Cardinality(FeedToggles(ns)) = 4

\* C4, amended: the loaded file declares exactly five feed toggles,
\* FEED_ALL_ATOM, CATEGORY_FEED_ATOM, TRANSLATION_FEED_ATOM, AUTHOR_FEED_ATOM
\* and AUTHOR_FEED_RSS.
C4_FiveFeedToggles ==
    pc = Loaded =>
        /\ Cardinality(FeedToggles(ns)) = 5
        /\ FeedToggles(ns) = {"FEED_ALL_ATOM", "CATEGORY_FEED_ATOM",
                              "TRANSLATION_FEED_ATOM", "AUTHOR_FEED_ATOM",
                              "AUTHOR_FEED_RSS"}

\* The generator has read every feed toggle the module declares.
C4_Witness ==
    /\ pc = Loaded
    /\ FeedToggles(ns) # {}
    /\ FeedToggles(settings) = FeedToggles(ns)

\* C5: every feed toggle that is bound holds None or a non-empty string, and
\* in this file every one of them holds None.
C5_FeedTogglesDisabled ==
    \A k \in FeedToggles(ns) :
        /\ IsNone(ns[k]) \/ IsNonEmptyStr(ns[k])
        /\ IsNone(ns[k])

\* The generator has read FEED_ALL_ATOM and AUTHOR_FEED_RSS, both None.
C5_Witness ==
    /\ pc = Loaded
    /\ {"FEED_ALL_ATOM", "AUTHOR_FEED_RSS"} \subseteq DOMAIN settings
    /\ IsNone(settings["FEED_ALL_ATOM"])
    /\ IsNone(settings["AUTHOR_FEED_RSS"])

\* C6: once the file is loaded, DEFAULT_PAGINATION is bound to a boolean, and
\* the boolean is False.
C6_PaginationFalse ==
    pc = Loaded =>
        /\ "DEFAULT_PAGINATION" \in DOMAIN ns
        /\ IsBool(ns["DEFAULT_PAGINATION"])
        /\ ns["DEFAULT_PAGINATION"].b = FALSE

\* The generator has read the pagination default.
C6_Witness ==
    /\ pc = Loaded
    /\ "DEFAULT_PAGINATION" \in DOMAIN settings
    /\ IsBool(settings["DEFAULT_PAGINATION"])

\* C8: once the file is loaded, SITEURL is bound to the empty string, and it
\* is the only name bound to an empty string.
C8_SiteUrlEmpty ==
    pc = Loaded =>
        /\ "SITEURL" \in DOMAIN ns
        /\ IsStr(ns["SITEURL"])
        /\ Len(ns["SITEURL"].chars) = 0
        /\ \A k \in DOMAIN ns :
               IsStr(ns[k]) /\ Len(ns[k].chars) = 0 => k = "SITEURL"

\* The generator has read SITEURL and another string setting.
C8_Witness ==
    /\ pc = Loaded
    /\ {"SITEURL", "SITENAME"} \subseteq DOMAIN settings
    /\ IsStr(settings["SITEURL"])
    /\ IsNonEmptyStr(settings["SITENAME"])

\* C9: loading runs forward once through the file; a name, once bound, keeps
\* its binding in every later step, so no statement reassigns it; and once
\* the file is loaded no step changes the namespace.
C9_BoundOnceThenFrozen ==
    [][/\ pc' \in {pc, pc + 1}
       /\ \A k \in DOMAIN ns : k \in DOMAIN ns' /\ ns'[k] = ns[k]
       /\ pc = Loaded => ns' = ns /\ pc' = Loaded]_vars

\* The generator has read every setting of the loaded module.
C9_Witness ==
    /\ pc = Loaded
    /\ SettingNames(ns) # {}
    /\ DOMAIN settings = SettingNames(ns)
    /\ \A k \in DOMAIN settings : settings[k] = ns[k]

\* The fifteen names the file assigns outside comments.
AssignedNames ==
    {"AUTHOR", "SITENAME", "SITEURL", "PATH", "TIMEZONE", "DEFAULT_LANG",
     "FEED_ALL_ATOM", "CATEGORY_FEED_ATOM", "TRANSLATION_FEED_ATOM",
     "AUTHOR_FEED_ATOM", "AUTHOR_FEED_RSS", "LINKS", "SOCIAL",
     "DEFAULT_PAGINATION", "THEME"}

\* C10: RELATIVE_URLS is never bound, and once the file is loaded the names
\* bound are exactly the fifteen assigned outside comments and the imported
\* unicode_literals, so the settings are exactly the fifteen.
C10_NoRelativeUrls ==
    /\ "RELATIVE_URLS" \notin DOMAIN ns
    /\ pc = Loaded =>
           /\ DOMAIN ns = AssignedNames \cup {"unicode_literals"}
           /\ SettingNames(ns) = AssignedNames

\* The generator has read all fifteen settings, RELATIVE_URLS not among them.
C10_Witness ==
    /\ pc = Loaded
    /\ Cardinality(DOMAIN settings) = 15
    /\ "RELATIVE_URLS" \notin DOMAIN settings

====
